---------------------------- MODULE Spec2Model ----------------------------
(***************************************************************************)
(* A model of the sineater scripts: filename parsing, the comment and      *)
(* image ingestion scripts (fetch existing keys, filter, append with       *)
(* backoff) and the classification scripts (skip rule, batched updates).   *)
(*                                                                         *)
(* Text is modelled as a sequence of tokens: one-character strings, plus   *)
(* a few literal words of the scripts ("uwaterlooconfessions", ".jpg",     *)
(* "comments.json") that are kept as one token each.                       *)
(***************************************************************************)
EXTENDS Integers, Sequences, FiniteSets, TLC

VARIABLES
    \* ---- filename parsing (confessor.py extract_post_id, confess-ocr.py process_filename)
    filename,        \* the filename handed to the two parsers
    post_id,         \* what extract_post_id(filename) returned
    parsed,          \* what process_filename(filename) returned or raised
    parsePc,         \* which of the two calls have been made
    \* ---- the "comments" worksheet and confessor.py retry_append_with_backoff
    comments_sheet,  \* rows of the worksheet, header first: [post, cid] cell texts
    rows,            \* the rows argument of the call in progress
    retries,         \* the retries argument of the call in progress
    attempt,         \* the loop variable i of retry_append_with_backoff
    retryPc,         \* "idle", "attempt", "returned" or "raised"
    result,          \* the value returned: "True", "False" or "none"
    outcomes,        \* what each append_rows call of this invocation did
    sleeps,          \* the waits of this invocation, in seconds, in order
    sheet_before,    \* comments_sheet when the invocation began
    \* ---- confessor.py process_directory
    directory,       \* filename -> list of comment ids of the JSON file
    existing_comment_ids, \* the set fetched at the start of the run, grown during it
    todo,            \* files of os.listdir(directory) not yet visited
    ingPc,           \* "idle", "files", "appending", "done" or "crashed"
    runs,            \* runs of process_directory started so far
    appended_in_run, \* rows appended by the current run
    gave_up,         \* some append of some run returned False or raised
    \* ---- the "confessions" worksheet and confess-ocr.py check_and_append_rows
    confessions_sheet,   \* rows of the worksheet, header first
    writers,             \* how many processes may run the script side by side
    ocrPc,               \* per process: "idle", "running", "done", "crashed", "cut off"
    existing_filenames,  \* per process: the Filename column fetched at its start
    listing,             \* per process: files of os.listdir not yet visited
    ocrRuns,             \* runs of the script started so far
    \* ---- the classification scripts' main and the worksheet they label
    script,          \* which of the three scripts is run: "hate", "sexism", "homophobia"
    worksheet,       \* [hdr: the header row, cells: the data rows]
    model,           \* the classifier: stripped text -> [label, score]
    args,            \* [gid, column, batch_size] of the current run
    clsPc,           \* "idle", "loop", "done", "returned" or "crashed"
    exc,             \* the exception that ended the run, or "none"
    echo,            \* the message of click.echo before a return
    records,         \* worksheet.get_all_records(): the data rows as fetched
    rec_hdr,         \* the keys of the records
    headers,         \* the local list headers
    label_col_index,
    score_col_index,
    row_index,       \* i, the index enumerate gives the next row
    updates,         \* the pending updates
    readable_label,  \* the homophobia script's local, "unbound" before any assignment
    flushes,         \* the batch_update calls of the current run that went through
    cooldowns,       \* the time.sleep(2.5) calls of the current run
    header_writes,   \* the update_cell calls of the current run: [col, value] in row 1
    clsRuns,         \* runs of the script started so far
    prev_status,     \* how the run before the current one ended
    prev_written,    \* the sheet rows the run before the current one wrote
    chain_start,     \* the worksheet before the first of the runs that crashed in a row
    chain_written,   \* the sheet rows those crashed runs wrote
    visResult        \* fetch_sheet_data: "not called", "records" or "ValueError"

parseVars == <<filename, post_id, parsed, parsePc>>
retryVars == <<comments_sheet, rows, retries, attempt, retryPc, result, outcomes,
               sleeps, sheet_before>>
ingestVars == <<directory, existing_comment_ids, todo, ingPc, runs, appended_in_run,
                gave_up>>

ocrVars == <<confessions_sheet, writers, ocrPc, existing_filenames, listing, ocrRuns>>

clsVars == <<script, worksheet, model, args, clsPc, exc, echo, records, rec_hdr, headers,
            label_col_index, score_col_index, row_index, updates, readable_label, flushes,
            cooldowns, header_writes, clsRuns, prev_status, prev_written, chain_start, chain_written,
            visResult>>

vars == <<parseVars, retryVars, ingestVars, ocrVars, clsVars>>

\* What the actions of one script leave alone: the state of the others.
notParse == <<retryVars, ingestVars, ocrVars, clsVars>>
notIngest == <<parseVars, ocrVars, clsVars>>
notOcr == <<parseVars, retryVars, ingestVars, clsVars>>
notCls == <<parseVars, retryVars, ingestVars, ocrVars>>

-----------------------------------------------------------------------------
\* Bounds of the model.
MaxLen == 5          \* longest filename, in tokens, that the parsers are applied to
MaxRetries == 3      \* largest retries argument tried on retry_append_with_backoff
MaxComments == 2     \* most comments in one JSON file
MaxRuns == 2         \* runs of one script against the same sheet
MaxRows == 2         \* data rows of the worksheet that is classified
MaxBatch == 2        \* largest --batch-size

-----------------------------------------------------------------------------
\* Text helpers.

Prefix == "uwaterlooconfessions"
Jpg == ".jpg"
Dash == "-"

DigitChars == {"0", "1", "2", "3", "4", "5", "6", "7", "8", "9"}

IsDigit(c) == c \in DigitChars

\* The tokens filenames are built from.
Alphabet == {Prefix, Dash, "4", "8", "UTC", Jpg}

RECURSIVE SeqsUpTo(_, _)
SeqsUpTo(S, n) ==
    IF n = 0 THEN {<<>>}
    ELSE LET shorter == SeqsUpTo(S, n - 1)
         IN  shorter \cup {Append(s, c) : s \in {t \in shorter : Len(t) = n - 1}, c \in S}

\* The filename of the documentation's example,
\* uwaterlooconfessions-4821-2023-01-05_10-20-30-UTC.jpg.
ExampleName ==
    <<Prefix, Dash, "4", "8", "2", "1", Dash, "2", "0", "2", "3", Dash, "0", "1", Dash,
      "0", "5", "_", "1", "0", Dash, "2", "0", Dash, "3", "0", Dash, "UTC", Jpg>>

\* The filenames the parsers are applied to: never the empty name.
Filenames == (SeqsUpTo(Alphabet, MaxLen) \ {<<>>}) \cup {ExampleName}

\* Python values returned by the parsers: None, a str, a (post_id, post_date)
\* tuple, or a raised IndexError.
PyNone == [tag |-> "None", id |-> <<>>, date |-> <<>>]
PyStrResult(s) == [tag |-> "str", id |-> s, date |-> <<>>]
PyTuple(a, b) == [tag |-> "tuple", id |-> a, date |-> b]
RaisedIndexError == [tag |-> "IndexError", id |-> <<>>, date |-> <<>>]
NotCalled == [tag |-> "not called", id |-> <<>>, date |-> <<>>]

\* str.split(sep): the pieces between the occurrences of sep.
RECURSIVE Split(_, _)
Split(s, sep) ==
    IF \A i \in 1..Len(s) : s[i] # sep THEN <<s>>
    ELSE LET i == CHOOSE k \in 1..Len(s) : s[k] = sep /\ \A j \in 1..(k - 1) : s[j] # sep
         IN  <<SubSeq(s, 1, i - 1)>> \o Split(SubSeq(s, i + 1, Len(s)), sep)

\* sep.join(parts).
RECURSIVE Join(_, _)
Join(parts, sep) ==
    IF Len(parts) = 0 THEN <<>>
    ELSE IF Len(parts) = 1 THEN parts[1]
    ELSE parts[1] \o <<sep>> \o Join(Tail(parts), sep)

\* str.replace(tok, ""): every occurrence of the token removed.
RemoveToken(s, tok) == SelectSeq(s, LAMBDA c : c # tok)

\* The end of the longest run of digits that starts at position j (j - 1 if none).
RECURSIVE DigitRunEnd(_, _)
DigitRunEnd(s, j) ==
    IF j <= Len(s) /\ IsDigit(s[j]) THEN DigitRunEnd(s, j + 1) ELSE j - 1

\* The regular expression uwaterlooconfessions-(\d+)- matches at position i.
RegexMatchesAt(s, i) ==
    /\ i + 3 <= Len(s)
    /\ s[i] = Prefix
    /\ s[i + 1] = Dash
    /\ DigitRunEnd(s, i + 2) >= i + 2
    /\ DigitRunEnd(s, i + 2) + 1 <= Len(s)
    /\ s[DigitRunEnd(s, i + 2) + 1] = Dash

\* confessor.py extract_post_id: re.search, group(1) of the leftmost match, or None.
extract_post_id(name) ==
    IF \E i \in 1..Len(name) : RegexMatchesAt(name, i)
    THEN LET i == CHOOSE k \in 1..Len(name) :
                      RegexMatchesAt(name, k) /\ \A j \in 1..(k - 1) : ~RegexMatchesAt(name, j)
         IN  PyStrResult(SubSeq(name, i + 2, DigitRunEnd(name, i + 2)))
    ELSE PyNone

\* image_file.endswith(".jpg").
EndsWithJpg(name) == Len(name) > 0 /\ name[Len(name)] = Jpg

\* confess-ocr.py process_filename: parts[1] and the rest joined again, ".jpg" removed.
\* parts[1] raises IndexError when the name holds no "-".
process_filename(name) ==
    LET parts == Split(name, Dash)
    IN  IF Len(parts) < 2 THEN RaisedIndexError
        ELSE PyTuple(parts[2], RemoveToken(Join(SubSeq(parts, 3, Len(parts)), Dash), Jpg))

-----------------------------------------------------------------------------
\* Python values of a comment's "id" field: json.load gives an int for a JSON
\* number and a str for a JSON string; an int never equals a str.
PyInt(n) == [type |-> "int", n |-> n, s |-> <<>>]
PyStr(s) == [type |-> "str", n |-> 0, s |-> s]

DigitOf == <<"0", "1", "2", "3", "4", "5", "6", "7", "8", "9">>

\* The decimal digits of a natural number.
RECURSIVE Decimal(_)
Decimal(n) ==
    IF n < 10 THEN <<DigitOf[n + 1]>>
    ELSE Append(Decimal(n \div 10), DigitOf[(n % 10) + 1])

\* str(v), as the f-string f"'{comment_id}" formats it.
Format(v) == IF v.type = "int" THEN Decimal(v.n) ELSE v.s

\* value_input_option="USER_ENTERED": a leading apostrophe makes the cell text
\* and is not part of the stored value.
UserEntered(text) ==
    IF Len(text) > 0 /\ text[1] = "'" THEN Tail(text) ELSE text

StoredRow(row) == [post |-> UserEntered(row.post), cid |-> UserEntered(row.cid)]

StoredRows(rs) == [k \in 1..Len(rs) |-> StoredRow(rs[k])]

HeaderRow == [post |-> <<"Post ID">>, cid |-> <<"Comment ID">>]

\* sheet.col_values(3): the cells of the Comment ID column, header included, as str.
ColValues3(sheet) == {PyStr(sheet[k].cid) : k \in 1..Len(sheet)}

\* confessor.py get_existing_comment_ids.
get_existing_comment_ids(sheet) == ColValues3(sheet)

\* The wait of retry_append_with_backoff after failed attempt i: 2**i.
BackoffWaitLinear(i) == 2 * i

BackoffWait(i) == 2 ^ i

\* No CommentID occurs in two rows of the worksheet.
NoDuplicateCommentID(sheet) ==
    \A j, k \in 1..Len(sheet) : sheet[j].cid = sheet[k].cid => j = k

\* The entry process_comment_file builds for one comment (the timestamp, the
\* commenter, the like count and the text are copied through and left out).
Entry(pid, comment_id) ==
    [post |-> <<"'">> \o pid, cid |-> <<"'">> \o Format(comment_id)]

\* The loop of process_comment_file over the comments of one file: the entries
\* to append and the grown set of known ids.
RECURSIVE BuildEntries(_, _, _, _)
BuildEntries(comments, pid, entries, existing) ==
    IF comments = <<>> THEN [new_entries |-> entries, existing |-> existing]
    ELSE LET comment_id == Head(comments)
         IN  IF comment_id \in existing
             THEN BuildEntries(Tail(comments), pid, entries, existing)
             ELSE BuildEntries(Tail(comments), pid,
                               Append(entries, Entry(pid, comment_id)),
                               existing \cup {comment_id})

\* fnmatch.fnmatch(filename, "uwaterlooconfessions-*comments.json").
FnmatchComments(name) ==
    /\ Len(name) >= 3
    /\ name[1] = Prefix
    /\ name[2] = Dash
    /\ name[Len(name)] = "comments.json"

\* The files a directory may hold.
File48 == <<Prefix, Dash, "4", "8", Dash, "comments.json">>
File8 == <<Prefix, Dash, "8", Dash, "comments.json">>
FileNoId == <<Prefix, Dash, "UTC", Dash, "comments.json">>
FileOther == <<"UTC", Jpg>>

IdNumbers == {7, 12}

CommentIds(type) ==
    IF type = "int" THEN {PyInt(n) : n \in IdNumbers}
    ELSE {PyStr(Decimal(n)) : n \in IdNumbers}

DirFiles == {File48, File8, FileNoId, FileOther}

\* The directories: any of the four files, File48 and File8 with any list of
\* up to MaxComments comments, the other two with one comment.
Directories(type) ==
    LET lists == SeqsUpTo(CommentIds(type), MaxComments)
        one == <<CHOOSE c \in CommentIds(type) : TRUE>>
    IN  {d \in UNION {[D -> lists] : D \in SUBSET DirFiles} :
            \A f \in DOMAIN d \cap {FileNoId, FileOther} : d[f] = one}

-----------------------------------------------------------------------------
\* confessor.py retry_append_with_backoff, one action per append_rows call.

RetryIdle ==
    /\ comments_sheet = <<HeaderRow>>
    /\ rows = <<>>
    /\ retries = 0
    /\ attempt = 0
    /\ retryPc = "idle"
    /\ result = "none"
    /\ outcomes = <<>>
    /\ sleeps = <<>>
    /\ sheet_before = <<HeaderRow>>

IngestIdle ==
    /\ directory = <<>>
    /\ existing_comment_ids = {}
    /\ todo = {}
    /\ ingPc = "idle"
    /\ runs = 0
    /\ appended_in_run = 0
    /\ gave_up = FALSE

\* The retries argument batch_append_to_sheet leaves at its default.
DefaultRetries == 3

\* What the caller, process_comment_file inside process_directory's loop, does
\* when the call returns: back to the loop over the files (after time.sleep(1)).
ReturnToCaller(ok, count) ==
    IF ingPc = "appending"
    THEN /\ ingPc' = IF todo = {} THEN "done" ELSE "files"
         /\ appended_in_run' = appended_in_run + count
         /\ gave_up' = (gave_up \/ ~ok)
         /\ UNCHANGED <<directory, existing_comment_ids, todo, runs>>
    ELSE UNCHANGED ingestVars

\* Nothing between retry_append_with_backoff and the top of the script catches
\* an exception: the run ends.
RaiseToCaller ==
    IF ingPc = "appending"
    THEN /\ ingPc' = "crashed"
         /\ gave_up' = TRUE
         /\ UNCHANGED <<directory, existing_comment_ids, todo, runs, appended_in_run>>
    ELSE UNCHANGED ingestVars

\* sheet.append_rows succeeds: return True.
AppendSucceeds ==
    /\ retryPc = "attempt"
    /\ attempt < retries
    /\ comments_sheet' = comments_sheet \o StoredRows(rows)
    /\ outcomes' = Append(outcomes, "ok")
    /\ result' = "True"
    /\ retryPc' = "returned"
    /\ ReturnToCaller(TRUE, Len(rows))
    /\ UNCHANGED <<rows, retries, attempt, sleeps, sheet_before, notIngest>>

\* sheet.append_rows raises an APIError naming 429: sleep 2**i, next attempt.
AppendRateLimited ==
    /\ retryPc = "attempt"
    /\ attempt < retries
    /\ outcomes' = Append(outcomes, "429")
    /\ sleeps' = Append(sleeps, BackoffWait(attempt))
    /\ attempt' = attempt + 1
    /\ UNCHANGED <<comments_sheet, rows, retries, retryPc, result, sheet_before,
                   ingestVars, notIngest>>

\* The same error handled as the rate limit is: wait and try again.
AppendFailsRetried ==
    /\ retryPc = "attempt"
    /\ attempt < retries
    /\ outcomes' = Append(outcomes, "error")
    /\ sleeps' = Append(sleeps, BackoffWait(attempt))
    /\ attempt' = attempt + 1
    /\ UNCHANGED <<comments_sheet, rows, retries, retryPc, result, sheet_before,
                   ingestVars, notIngest>>

\* sheet.append_rows raises any other APIError: raise e.
AppendFails ==
    /\ retryPc = "attempt"
    /\ attempt < retries
    /\ outcomes' = Append(outcomes, "error")
    /\ retryPc' = "raised"
    /\ RaiseToCaller
    /\ UNCHANGED <<comments_sheet, rows, retries, attempt, result, sleeps,
                   sheet_before, notIngest>>

\* range(retries) is used up: return False.
RetriesExhausted ==
    /\ retryPc = "attempt"
    /\ attempt >= retries
    /\ result' = "False"
    /\ retryPc' = "returned"
    /\ ReturnToCaller(FALSE, 0)
    /\ UNCHANGED <<comments_sheet, rows, retries, attempt, outcomes, sleeps,
                   sheet_before, notIngest>>

-----------------------------------------------------------------------------
\* confessor.py process_directory.

NoCall ==
    /\ rows' = <<>>
    /\ retries' = 0
    /\ attempt' = 0
    /\ retryPc' = "idle"
    /\ result' = "none"
    /\ outcomes' = <<>>
    /\ sleeps' = <<>>
    /\ sheet_before' = comments_sheet

\* A run begins: the existing Comment IDs are fetched once, then the files listed.
StartRun ==
    /\ ingPc \in {"idle", "done", "crashed"}
    /\ runs < MaxRuns
    /\ runs' = runs + 1
    /\ existing_comment_ids' = get_existing_comment_ids(comments_sheet)
    /\ todo' = DOMAIN directory
    /\ ingPc' = IF DOMAIN directory = {} THEN "done" ELSE "files"
    /\ appended_in_run' = 0
    /\ NoCall
    /\ UNCHANGED <<comments_sheet, directory, gave_up, notIngest>>

AfterFile(f) == IF todo \ {f} = {} THEN "done" ELSE "files"

\* A file the loop passes over: the name does not match the pattern, or
\* process_comment_file finds no post id in it and returns.
SkipFile(f) ==
    /\ ingPc = "files"
    /\ f \in todo
    /\ ~FnmatchComments(f) \/ extract_post_id(f) = PyNone
    /\ todo' = todo \ {f}
    /\ ingPc' = AfterFile(f)
    /\ UNCHANGED <<directory, existing_comment_ids, runs, appended_in_run, gave_up,
                   retryVars, notIngest>>

\* A file all of whose comments are known: batch_append_to_sheet gets no rows.
VisitFileNothingNew(f) ==
    /\ ingPc = "files"
    /\ f \in todo
    /\ FnmatchComments(f)
    /\ extract_post_id(f) # PyNone
    /\ LET b == BuildEntries(directory[f], extract_post_id(f).id, <<>>,
                             existing_comment_ids)
       IN  /\ b.new_entries = <<>>
           /\ existing_comment_ids' = b.existing
    /\ todo' = todo \ {f}
    /\ ingPc' = AfterFile(f)
    /\ UNCHANGED <<directory, runs, appended_in_run, gave_up, retryVars, notIngest>>

\* A file with new comments: the entries go to retry_append_with_backoff.
VisitFileAppend(f) ==
    /\ ingPc = "files"
    /\ f \in todo
    /\ FnmatchComments(f)
    /\ extract_post_id(f) # PyNone
    /\ LET b == BuildEntries(directory[f], extract_post_id(f).id, <<>>,
                             existing_comment_ids)
       IN  /\ b.new_entries # <<>>
           /\ existing_comment_ids' = b.existing
           /\ rows' = b.new_entries
    /\ todo' = todo \ {f}
    /\ ingPc' = "appending"
    /\ retries' = DefaultRetries
    /\ attempt' = 0
    /\ retryPc' = "attempt"
    /\ result' = "none"
    /\ outcomes' = <<>>
    /\ sleeps' = <<>>
    /\ sheet_before' = comments_sheet
    /\ UNCHANGED <<comments_sheet, directory, runs, appended_in_run, gave_up, notIngest>>

-----------------------------------------------------------------------------
\* confess-ocr.py check_and_append_rows, one action per file of the listing.

Procs == {1, 2}

ConfessionsHeader ==
    [Filename |-> <<"Filename">>, PostID |-> <<"Post ID">>, PostDate |-> <<"Post date">>,
     Text |-> "OCR'd Confession Text"]

\* The image files, and other files, a directory may hold.
Image48 == <<Prefix, Dash, "4", "8", Dash, "UTC", Jpg>>
Image8 == <<Prefix, Dash, "8", Dash, "UTC", Jpg>>
ImageNoDash == <<"UTC", Jpg>>
NotAnImage == <<Prefix, Dash, "8", Dash, "UTC">>

OcrFiles == {Image48, Image8, ImageNoDash, NotAnImage}

\* ocr_image: the stripped text, or "" when the engine fails.
OcrTexts == {"", "confession"}

\* The row check_and_append_rows appends for an image file.
ConfessionRow(image_file, text) ==
    [Filename |-> image_file,
     PostID |-> process_filename(image_file).id,
     PostDate |-> process_filename(image_file).date,
     Text |-> text]

\* sheet.col_values(1): the cells of the Filename column, header included.
ColValues1(sheet) == [k \in 1..Len(sheet) |-> sheet[k].Filename]

\* image_file not in existing_filenames.
IsNewAlways(image_file, existing) == TRUE

IsNew(image_file, existing) ==
    \A k \in 1..Len(existing) : existing[k] # image_file

\* No Filename occurs in two rows of the worksheet.
NoDuplicateFilename(sheet) ==
    \A j, k \in 1..Len(sheet) : sheet[j].Filename = sheet[k].Filename => j = k

OcrIdle ==
    /\ confessions_sheet = <<ConfessionsHeader>>
    /\ writers = 1
    /\ ocrPc = [p \in Procs |-> "idle"]
    /\ existing_filenames = [p \in Procs |-> <<>>]
    /\ listing = [p \in Procs |-> {}]
    /\ ocrRuns = 0

\* A run begins: the Filename column is fetched once, then the directory listed.
OcrStartRun(p, dir) ==
    /\ p <= writers
    /\ ocrPc[p] # "running"
    /\ ocrRuns < MaxRuns
    /\ ocrRuns' = ocrRuns + 1
    /\ existing_filenames' = [existing_filenames EXCEPT ![p] = ColValues1(confessions_sheet)]
    /\ listing' = [listing EXCEPT ![p] = dir]
    /\ ocrPc' = [ocrPc EXCEPT ![p] = IF dir = {} THEN "done" ELSE "running"]
    /\ UNCHANGED <<confessions_sheet, writers, notOcr>>

OcrAfter(p, f) == IF listing[p] \ {f} = {} THEN "done" ELSE "running"

\* A file that is no .jpg, or whose name was in the fetched column.
OcrSkipFile(p, f) ==
    /\ ocrPc[p] = "running"
    /\ f \in listing[p]
    /\ ~EndsWithJpg(f) \/ ~IsNew(f, existing_filenames[p])
    /\ listing' = [listing EXCEPT ![p] = @ \ {f}]
    /\ ocrPc' = [ocrPc EXCEPT ![p] = OcrAfter(p, f)]
    /\ UNCHANGED <<confessions_sheet, writers, existing_filenames, ocrRuns, notOcr>>

\* A new image: its name is parsed, its text read, its row appended.
OcrAppendFile(p, f, text) ==
    /\ ocrPc[p] = "running"
    /\ f \in listing[p]
    /\ EndsWithJpg(f)
    /\ IsNew(f, existing_filenames[p])
    /\ process_filename(f) # RaisedIndexError
    /\ confessions_sheet' = Append(confessions_sheet, ConfessionRow(f, text))
    /\ listing' = [listing EXCEPT ![p] = @ \ {f}]
    /\ ocrPc' = [ocrPc EXCEPT ![p] = OcrAfter(p, f)]
    /\ UNCHANGED <<writers, existing_filenames, ocrRuns, notOcr>>

\* A new image whose name holds no "-": process_filename raises IndexError,
\* which nothing catches.
OcrFilenameRaises(p, f) ==
    /\ ocrPc[p] = "running"
    /\ f \in listing[p]
    /\ EndsWithJpg(f)
    /\ IsNew(f, existing_filenames[p])
    /\ process_filename(f) = RaisedIndexError
    /\ ocrPc' = [ocrPc EXCEPT ![p] = "crashed"]
    /\ UNCHANGED <<confessions_sheet, writers, existing_filenames, listing, ocrRuns,
                   notOcr>>

\* sheet.append_row raises: the run ends, the row is not appended.
OcrAppendFails(p, f) ==
    /\ ocrPc[p] = "running"
    /\ f \in listing[p]
    /\ EndsWithJpg(f)
    /\ IsNew(f, existing_filenames[p])
    /\ process_filename(f) # RaisedIndexError
    /\ ocrPc' = [ocrPc EXCEPT ![p] = "crashed"]
    /\ UNCHANGED <<confessions_sheet, writers, existing_filenames, listing, ocrRuns,
                   notOcr>>

\* The process is killed between two files.
OcrCutOff(p) ==
    /\ ocrPc[p] = "running"
    /\ ocrPc' = [ocrPc EXCEPT ![p] = "cut off"]
    /\ UNCHANGED <<confessions_sheet, writers, existing_filenames, listing, ocrRuns,
                   notOcr>>

-----------------------------------------------------------------------------
\* The classification scripts (détester-, sexism- and homophobia-de-légende.py):
\* one main each, alike but for the header names, the header test and the mapping
\* of the model's answer to a label and a score.

Scripts == {"hate", "sexism", "homophobia"}

\* A cell value as get_all_records gives it and batch_update takes it: '' for an
\* empty cell, a str, a number (scores are kept in tenths), and None for what
\* row.get gives when the records have no such key.
Blank == [kind |-> "blank", s |-> <<>>, n |-> 0]
StrCell(s) == [kind |-> "str", s |-> s, n |-> 0]
NumCell(n) == [kind |-> "num", s |-> <<>>, n |-> n]
NoneCell == [kind |-> "None", s |-> <<>>, n |-> 0]

\* bool(value).
Truthy(c) == (c.kind = "str" /\ c.s # <<>>) \/ (c.kind = "num" /\ c.n # 0)

\* str(value).
StrOf(c) == IF c.kind = "str" THEN c.s ELSE <<>>

\* str.strip(): leading and trailing blanks removed.
RECURSIVE LStrip(_)
LStrip(s) == IF s # <<>> /\ Head(s) = " " THEN LStrip(Tail(s)) ELSE s

RECURSIVE RStrip(_)
RStrip(s) == IF s # <<>> /\ s[Len(s)] = " " THEN RStrip(SubSeq(s, 1, Len(s) - 1)) ELSE s

Strip(s) == RStrip(LStrip(s))

\* list.index(x) + 1, or 0 where Python raises ValueError.
IndexOf(seq, x) ==
    IF \E k \in 1..Len(seq) : seq[k] = x
    THEN CHOOSE k \in 1..Len(seq) : seq[k] = x /\ \A j \in 1..(k - 1) : seq[j] # x
    ELSE 0

Contains(seq, x) == \E k \in 1..Len(seq) : seq[k] = x

\* The header cell each script writes, and the name it tests the headers for.
LabelHeader(scr) ==
    CASE scr = "hate" -> "Hate Label"
      [] scr = "sexism" -> "Sexism Label"
      [] scr = "homophobia" -> "Homophobia Label"

ScoreHeader(scr) ==
    CASE scr = "hate" -> "Hate Score"
      [] scr = "sexism" -> "Sexism Score"
      [] scr = "homophobia" -> "Homophobia Score"

LabelGuard(scr) == IF scr = "hate" THEN "Hate Label" ELSE "Label"

ScoreGuard(scr) == IF scr = "hate" THEN "Hate Score" ELSE "Score"

\* The worksheets of the spreadsheet, by id, and the --gid and --column arguments.
WorksheetIds == {0}
GidArgs == {0, 5}
ColumnArgs == {"Text", "Caption"}

\* The cell of a row at a column, '' beyond the row's last cell.
CellAt(row, c) == IF c >= 1 /\ c <= Len(row) THEN row[c] ELSE Blank

\* A row with one cell set, padded with empty cells up to it.
SetCol(row, c, val) ==
    [k \in 1..(IF c > Len(row) THEN c ELSE Len(row)) |->
        IF k = c THEN val ELSE CellAt(row, k)]

\* row.get(name) on a record of get_all_records whose keys are hdr.
Get(hdr, row, name) ==
    IF Contains(hdr, name) THEN CellAt(row, IndexOf(hdr, name)) ELSE NoneCell

\* get_all_records refuses a header row that holds a name twice.
HeaderIsUnique(hdr) == \A j, k \in 1..Len(hdr) : hdr[j] = hdr[k] => j = k

\* The rows are skipped whose Label is set and whose Score is not None.
SkipsNothing(scr, hdr, row) == FALSE

AlreadyLabeled(scr, hdr, row) ==
    /\ Truthy(Get(hdr, row, LabelHeader(scr)))
    /\ Get(hdr, row, ScoreHeader(scr)) # NoneCell

\* The labels a model may answer with, per script.
RawLabels(scr) ==
    CASE scr = "hate" -> {"hate", "nothate", "other"}
      [] scr = "sexism" -> {"0", "1", "LABEL_0"}
      [] scr = "homophobia" -> {"LABEL_0", "LABEL_1", "LABEL_2"}

\* The scores a model may answer with, in tenths: 0.0 and 0.9.
RawScores == {0, 9}

\* int(label): defined on the decimal labels only.
IsDecimalLabel(raw) == raw \in {"0", "1"}
IntOf(raw) == IF raw = "0" THEN 0 ELSE 1

\* What one loop iteration makes of the model's answer [label, score]: the label
\* and the score it puts in the updates, or the exception it raises. stale is
\* the value readable_label has from the iterations before ("unbound" if none).
Outcome(e, label, score) == [exc |-> e, label |-> label, score |-> score]

Interpret(scr, answer, stale) ==
    CASE scr = "hate" ->
           IF answer.label = "hate" THEN Outcome("none", "hate", answer.score)
           ELSE IF answer.label = "nothate" THEN Outcome("none", "nothate", answer.score)
           ELSE Outcome("none", "nothate", 0)
      [] scr = "sexism" ->
           IF ~IsDecimalLabel(answer.label) THEN Outcome("ValueError", "", 0)
           ELSE IF IntOf(answer.label) = 0 THEN Outcome("none", "non-sexist", -answer.score)
           ELSE Outcome("none", "sexist", answer.score)
      [] scr = "homophobia" ->
           IF answer.label = "LABEL_1" THEN Outcome("none", "non-homophobic", -answer.score)
           ELSE IF answer.label = "LABEL_0" THEN Outcome("none", "homophobic", answer.score)
           ELSE IF stale = "unbound" THEN Outcome("UnboundLocalError", "", 0)
           ELSE Outcome("none", stale, answer.score)

\* An entry of the updates list: the cell (rowcol_to_a1 of row and column) and
\* the value.
Update(r, c, val) == [row |-> r, col |-> c, val |-> val]

\* worksheet.batch_update(updates): every entry written to its cell; the data
\* row of sheet row r is cells[r - 1].
RECURSIVE ApplyUpdates(_, _)
ApplyUpdates(cells, ups) ==
    IF ups = <<>> THEN cells
    ELSE LET u == Head(ups)
         IN  ApplyUpdates([cells EXCEPT ![u.row - 1] = SetCol(@, u.col, u.val)], Tail(ups))

\* The sheet rows the entries of a list of batch_update calls address.
RowsWritten(calls) ==
    UNION {{calls[k][j].row : j \in 1..Len(calls[k])} : k \in 1..Len(calls)}

\* How the run before the loop ends, when it ends there.
Ended(pc, e, msg, hdr, writes) ==
    [pc |-> pc, exc |-> e, echo |-> msg, hdr |-> hdr, writes |-> writes,
     headers |-> <<>>, label_col_index |-> 0, score_col_index |-> 0]

\* No worksheet has the gid: a message and a return.
MissingWorksheetRaises(hdr) == Ended("crashed", "AttributeError", "", hdr, <<>>)

MissingWorksheet(hdr) ==
    Ended("returned", "none", "Worksheet with gid not found.", hdr, <<>>)

\* Lines 31-59 of main: what the run does before its loop, given the
\* worksheet ws, the arguments, and which remote call (if any) fails.
\* hdr is the header row of the sheet afterwards, writes the update_cell calls
\* made. get_all_records raises GSpreadException on a header row that is not
\* unique, and gives no record for a sheet without data rows.
BeforeLoop(scr, ws, g, col, fail) ==
    LET h0 == ws.hdr
        needLabel == ~Contains(h0, LabelGuard(scr))
        h1 == IF needLabel THEN Append(h0, LabelHeader(scr)) ELSE h0
        w1 == IF needLabel THEN <<[col |-> Len(h0) + 1, value |-> LabelHeader(scr)]>>
              ELSE <<>>
        needScore == ~Contains(h1, ScoreGuard(scr))
        h2 == IF needScore THEN Append(h1, ScoreHeader(scr)) ELSE h1
        w2 == IF needScore
              THEN Append(w1, [col |-> Len(h1) + 1, value |-> ScoreHeader(scr)])
              ELSE w1
    IN  IF g \notin WorksheetIds THEN MissingWorksheet(h0)
        ELSE IF fail = "get_all_records" THEN Ended("crashed", "APIError", "", h0, <<>>)
        ELSE IF ~HeaderIsUnique(h0) THEN Ended("crashed", "GSpreadException", "", h0, <<>>)
        ELSE IF ws.cells = <<>> THEN Ended("returned", "none", "Sheet is empty.", h0, <<>>)
        ELSE IF needLabel /\ fail = "update_cell 1"
          THEN Ended("crashed", "APIError", "", h0, <<>>)
        ELSE IF needScore /\ fail = "update_cell 2"
          THEN Ended("crashed", "APIError", "", h1, w1)
        ELSE IF IndexOf(h2, LabelHeader(scr)) = 0 \/ IndexOf(h2, ScoreHeader(scr)) = 0
                  \/ IndexOf(h2, col) = 0
          THEN Ended("crashed", "ValueError", "", h2, w2)
        ELSE [pc |-> "loop", exc |-> "none", echo |-> "", hdr |-> h2, writes |-> w2,
              headers |-> h2,
              label_col_index |-> IndexOf(h2, LabelHeader(scr)),
              score_col_index |-> IndexOf(h2, ScoreHeader(scr))]

RemoteFailures == {"none", "get_all_records", "update_cell 1", "update_cell 2"}

NotFetched == [gid |-> 0, out |-> "not called"]

\* The texts a row may hold, and what is left of them after strip().
TextCells == {StrCell(<<" ">>), StrCell(<<"a">>), StrCell(<<" ", "b">>)}

ModelTexts == {Strip(StrOf(c)) : c \in TextCells} \ {<<>>}

\* A deterministic classifier: one answer per text.
Answers(scr) == [label : RawLabels(scr), score : RawScores]

Models(scr) == [ModelTexts -> Answers(scr)]

BaseHeader == <<"Post ID", "Text">>

DataRows == {<<StrCell(<<"4", "8">>), t>> : t \in TextCells}

ClsIdle ==
    /\ script = "hate"
    /\ worksheet = [hdr |-> BaseHeader, cells |-> <<>>]
    /\ model = [t \in ModelTexts |-> [label |-> "hate", score |-> 0]]
    /\ args = [gid |-> 0, column |-> "Text", batch_size |-> 1]
    /\ clsPc = "idle"
    /\ exc = "none"
    /\ echo = ""
    /\ records = <<>>
    /\ rec_hdr = <<>>
    /\ headers = <<>>
    /\ label_col_index = 0
    /\ score_col_index = 0
    /\ row_index = 0
    /\ updates = <<>>
    /\ readable_label = "unbound"
    /\ flushes = <<>>
    /\ cooldowns = 0
    /\ header_writes = <<>>
    /\ clsRuns = 0
    /\ prev_status = "none"
    /\ prev_written = {}
    /\ chain_start = [hdr |-> BaseHeader, cells |-> <<>>]
    /\ chain_written = {}
    /\ visResult = NotFetched

\* The threshold taken one pair too late.
FlushDueStrict(ups, batch_size) == Len(ups) > batch_size * 2

\* len(updates) >= batch_size * 2.
FlushDue(ups, batch_size) == Len(ups) >= batch_size * 2

\* The row of the current iteration, its sheet row number and its stripped text.
Row == records[row_index + 1]
RowNum == row_index + 2
Comment == Strip(StrOf(Get(rec_hdr, Row, args.column)))

Skipped == Comment = <<>> \/ AlreadyLabeled(script, rec_hdr, Row)

Current == Interpret(script, model[Comment], readable_label)

\* updates after the two appends of the current iteration.
Grown ==
    updates \o <<Update(RowNum, label_col_index, StrCell(<<Current.label>>)),
                 Update(RowNum, score_col_index, NumCell(Current.score))>>

clsFrame == <<script, model, args, records, rec_hdr, headers, label_col_index,
              score_col_index, header_writes, clsRuns, prev_status, prev_written, chain_start,
              chain_written, visResult>>

\* main up to its loop: worksheet by gid, records, headers, column indices.
ClsStart(g, col, bs, fail) ==
    /\ clsPc # "loop"
    /\ clsRuns < MaxRuns
    /\ LET b == BeforeLoop(script, worksheet, g, col, fail)
       IN  /\ worksheet' = [worksheet EXCEPT !.hdr = b.hdr]
           /\ clsPc' = b.pc
           /\ exc' = b.exc
           /\ echo' = b.echo
           /\ records' = IF b.pc = "loop" THEN worksheet.cells ELSE <<>>
           /\ rec_hdr' = IF b.pc = "loop" THEN worksheet.hdr ELSE <<>>
           /\ headers' = b.headers
           /\ header_writes' = b.writes
           /\ label_col_index' = b.label_col_index
           /\ score_col_index' = b.score_col_index
    /\ args' = [gid |-> g, column |-> col, batch_size |-> bs]
    /\ row_index' = 0
    /\ updates' = <<>>
    /\ readable_label' = "unbound"
    /\ flushes' = <<>>
    /\ cooldowns' = 0
    /\ clsRuns' = clsRuns + 1
    /\ prev_status' = clsPc
    /\ prev_written' = RowsWritten(flushes)
    /\ chain_start' = IF clsPc = "crashed" THEN chain_start ELSE worksheet
    /\ chain_written' = IF clsPc = "crashed" THEN chain_written \cup RowsWritten(flushes)
                        ELSE {}
    /\ UNCHANGED <<script, model, visResult, notCls>>

\* An iteration that skips its row: no text, or Label and Score present.
ClsSkipRow ==
    /\ clsPc = "loop"
    /\ row_index < Len(records)
    /\ Skipped
    /\ row_index' = row_index + 1
    /\ UNCHANGED <<worksheet, clsPc, exc, echo, updates, readable_label, flushes,
                   cooldowns, clsFrame, notCls>>

\* An iteration that classifies its row and appends the two updates; when the
\* list is long enough it is flushed in one batch_update, and the run sleeps.
ClsClassifyRow ==
    /\ clsPc = "loop"
    /\ row_index < Len(records)
    /\ ~Skipped
    /\ Current.exc = "none"
    /\ IF FlushDue(Grown, args.batch_size)
       THEN /\ worksheet' = [worksheet EXCEPT !.cells = ApplyUpdates(@, Grown)]
            /\ flushes' = Append(flushes, Grown)
            /\ updates' = <<>>
            /\ cooldowns' = cooldowns + 1
       ELSE /\ updates' = Grown
            /\ UNCHANGED <<worksheet, flushes, cooldowns>>
    /\ readable_label' = IF script = "homophobia" THEN Current.label ELSE readable_label
    /\ row_index' = row_index + 1
    /\ UNCHANGED <<clsPc, exc, echo, clsFrame, notCls>>

\* An iteration whose handling of the model's answer raises: int() of a label
\* that is no number, or readable_label read before any assignment.
ClsClassifyRaises ==
    /\ clsPc = "loop"
    /\ row_index < Len(records)
    /\ ~Skipped
    /\ Current.exc # "none"
    /\ clsPc' = "crashed"
    /\ exc' = Current.exc
    /\ UNCHANGED <<worksheet, echo, row_index, updates, readable_label, flushes, cooldowns,
                   clsFrame, notCls>>

\* model_pipeline raises.
ClsModelFails ==
    /\ clsPc = "loop"
    /\ row_index < Len(records)
    /\ ~Skipped
    /\ clsPc' = "crashed"
    /\ exc' = "ModelError"
    /\ UNCHANGED <<worksheet, echo, row_index, updates, readable_label, flushes, cooldowns,
                   clsFrame, notCls>>

\* A failing batch_update that has written the first entry of its list.
ClsFlushFailsHalfWritten ==
    /\ clsPc = "loop"
    /\ row_index < Len(records)
    /\ ~Skipped
    /\ Current.exc = "none"
    /\ FlushDue(Grown, args.batch_size)
    /\ worksheet' = [worksheet EXCEPT !.cells = ApplyUpdates(@, <<Head(Grown)>>)]
    /\ updates' = Grown
    /\ readable_label' = IF script = "homophobia" THEN Current.label ELSE readable_label
    /\ clsPc' = "crashed"
    /\ exc' = "APIError"
    /\ UNCHANGED <<echo, row_index, flushes, cooldowns, clsFrame, notCls>>

\* The batch_update of a due flush raises: nothing of the list is written.
ClsFlushFails ==
    /\ clsPc = "loop"
    /\ row_index < Len(records)
    /\ ~Skipped
    /\ Current.exc = "none"
    /\ FlushDue(Grown, args.batch_size)
    /\ updates' = Grown
    /\ readable_label' = IF script = "homophobia" THEN Current.label ELSE readable_label
    /\ clsPc' = "crashed"
    /\ exc' = "APIError"
    /\ UNCHANGED <<worksheet, echo, row_index, flushes, cooldowns, clsFrame, notCls>>

\* The end of the run without the last batch_update.
ClsFinishWithoutFlush ==
    /\ clsPc = "loop"
    /\ row_index = Len(records)
    /\ clsPc' = "done"
    /\ UNCHANGED <<worksheet, flushes, updates, exc, echo, row_index, readable_label,
                   cooldowns, clsFrame, notCls>>

\* After the loop: what is left in updates goes out in a last batch_update.
ClsFinish ==
    /\ clsPc = "loop"
    /\ row_index = Len(records)
    /\ IF updates # <<>>
       THEN /\ worksheet' = [worksheet EXCEPT !.cells = ApplyUpdates(@, updates)]
            /\ flushes' = Append(flushes, updates)
            /\ updates' = <<>>
       ELSE UNCHANGED <<worksheet, flushes, updates>>
    /\ clsPc' = "done"
    /\ UNCHANGED <<exc, echo, row_index, readable_label, cooldowns, clsFrame, notCls>>

\* The last batch_update raises.
ClsFinishFails ==
    /\ clsPc = "loop"
    /\ row_index = Len(records)
    /\ updates # <<>>
    /\ clsPc' = "crashed"
    /\ exc' = "APIError"
    /\ UNCHANGED <<worksheet, echo, row_index, updates, readable_label, flushes, cooldowns,
                   clsFrame, notCls>>

\* visualisations-de-confession.py fetch_sheet_data: the records of the
\* worksheet, or ValueError when no worksheet has the gid.
FetchSheetData(g) ==
    /\ visResult = NotFetched
    /\ clsRuns = 0
    /\ visResult' = [gid |-> g,
                     out |-> IF g \in WorksheetIds THEN "records" ELSE "ValueError"]
    /\ UNCHANGED <<worksheet, clsPc, exc, echo, row_index, updates, readable_label,
                   flushes, cooldowns, script, model, args, records, rec_hdr, headers,
                   label_col_index, score_col_index, header_writes, clsRuns,
                   prev_status, prev_written, chain_start, chain_written, notCls>>

-----------------------------------------------------------------------------
\* The two parsers applied to every filename up to MaxLen tokens.

ParseIdle ==
    /\ filename = <<>>
    /\ post_id = NotCalled
    /\ parsed = NotCalled
    /\ parsePc = {}

InitParse ==
    /\ filename \in Filenames
    /\ post_id = NotCalled
    /\ parsed = NotCalled
    /\ parsePc = {}
    /\ RetryIdle
    /\ IngestIdle
    /\ OcrIdle
    /\ ClsIdle

CallExtractPostId ==
    /\ "extract_post_id" \notin parsePc
    /\ post_id' = extract_post_id(filename)
    /\ parsePc' = parsePc \cup {"extract_post_id"}
    /\ UNCHANGED <<filename, parsed, notParse>>

CallProcessFilename ==
    /\ "process_filename" \notin parsePc
    /\ parsed' = process_filename(filename)
    /\ parsePc' = parsePc \cup {"process_filename"}
    /\ UNCHANGED <<filename, post_id, notParse>>

NextParse ==
    \/ CallExtractPostId
    \/ CallProcessFilename

SpecParse == InitParse /\ [][NextParse]_vars

-----------------------------------------------------------------------------
\* retry_append_with_backoff called with every retries argument up to MaxRetries.

SomeEntries == {Entry(<<"4", "8">>, PyInt(7)), Entry(<<"8">>, PyStr(<<"1", "2">>))}

SomeSheets == {<<HeaderRow>>, <<HeaderRow, [post |-> <<"4", "8">>, cid |-> <<"7">>]>>}

InitRetry ==
    /\ comments_sheet \in SomeSheets
    /\ sheet_before = comments_sheet
    /\ rows \in SeqsUpTo(SomeEntries, 2) \ {<<>>}
    /\ retries \in 0..MaxRetries
    /\ attempt = 0
    /\ retryPc = "attempt"
    /\ result = "none"
    /\ outcomes = <<>>
    /\ sleeps = <<>>
    /\ IngestIdle
    /\ ParseIdle
    /\ OcrIdle
    /\ ClsIdle

NextRetry ==
    \/ AppendSucceeds
    \/ AppendRateLimited
    \/ AppendFails
    \/ RetriesExhausted

\* The call runs on: every append_rows call comes back, one way or another.
SpecRetry == InitRetry /\ [][NextRetry]_vars /\ WF_vars(NextRetry)

-----------------------------------------------------------------------------
\* The comment-ingestion script run up to MaxRuns times, one process, on one
\* directory whose JSON files give every id as a number or every id as a string.

InitIngest ==
    /\ comments_sheet \in SomeSheets
    /\ sheet_before = comments_sheet
    /\ rows = <<>>
    /\ retries = 0
    /\ attempt = 0
    /\ retryPc = "idle"
    /\ result = "none"
    /\ outcomes = <<>>
    /\ sleeps = <<>>
    /\ \E type \in {"int", "str"} : directory \in Directories(type)
    /\ existing_comment_ids = {}
    /\ todo = {}
    /\ ingPc = "idle"
    /\ runs = 0
    /\ appended_in_run = 0
    /\ gave_up = FALSE
    /\ ParseIdle
    /\ OcrIdle
    /\ ClsIdle

NextIngest ==
    \/ StartRun
    \/ \E f \in DirFiles : SkipFile(f)
    \/ \E f \in DirFiles : VisitFileNothingNew(f)
    \/ \E f \in DirFiles : VisitFileAppend(f)
    \/ AppendSucceeds
    \/ AppendRateLimited
    \/ AppendFails
    \/ RetriesExhausted

SpecIngest == InitIngest /\ [][NextIngest]_vars

-----------------------------------------------------------------------------
\* The image-ingestion script run up to MaxRuns times over any directories, by one
\* process at a time (writers = 1) or by two processes side by side (writers = 2).

SomeConfessionSheets ==
    {<<ConfessionsHeader>>, <<ConfessionsHeader, ConfessionRow(Image48, "confession")>>}

InitOcr ==
    /\ confessions_sheet \in SomeConfessionSheets
    /\ writers \in Procs
    /\ ocrPc = [p \in Procs |-> "idle"]
    /\ existing_filenames = [p \in Procs |-> <<>>]
    /\ listing = [p \in Procs |-> {}]
    /\ ocrRuns = 0
    /\ ParseIdle
    /\ RetryIdle
    /\ IngestIdle
    /\ ClsIdle

NextOcr ==
    \/ \E p \in Procs, dir \in SUBSET OcrFiles : OcrStartRun(p, dir)
    \/ \E p \in Procs, f \in OcrFiles : OcrSkipFile(p, f)
    \/ \E p \in Procs, f \in OcrFiles, text \in OcrTexts : OcrAppendFile(p, f, text)
    \/ \E p \in Procs, f \in OcrFiles : OcrFilenameRaises(p, f)
    \/ \E p \in Procs, f \in OcrFiles : OcrAppendFails(p, f)
    \/ \E p \in Procs : OcrCutOff(p)

SpecOcr == InitOcr /\ [][NextOcr]_vars

-----------------------------------------------------------------------------
\* A classification script run up to MaxRuns times on a worksheet of up to
\* MaxRows rows, with any arguments, any deterministic model, and any of its
\* remote calls or model calls failing.

InitClassify ==
    /\ script \in Scripts
    /\ worksheet \in [hdr : {BaseHeader}, cells : SeqsUpTo(DataRows, MaxRows)]
    /\ model \in Models(script)
    /\ args = [gid |-> 0, column |-> "Text", batch_size |-> 1]
    /\ clsPc = "idle"
    /\ exc = "none"
    /\ echo = ""
    /\ records = <<>>
    /\ rec_hdr = <<>>
    /\ headers = <<>>
    /\ label_col_index = 0
    /\ score_col_index = 0
    /\ row_index = 0
    /\ updates = <<>>
    /\ readable_label = "unbound"
    /\ flushes = <<>>
    /\ cooldowns = 0
    /\ header_writes = <<>>
    /\ clsRuns = 0
    /\ prev_status = "none"
    /\ prev_written = {}
    /\ chain_start = worksheet
    /\ chain_written = {}
    /\ visResult = NotFetched
    /\ ParseIdle
    /\ RetryIdle
    /\ IngestIdle
    /\ OcrIdle

\* The command lines tried: every --batch-size with arguments that fit the
\* sheet, and one with each argument that does not (a run that stops at the gid,
\* or at the column, reads no argument after it).
Invocations ==
    [gid : WorksheetIds, column : {"Text"}, batch_size : 1..MaxBatch]
        \cup [gid : WorksheetIds, column : ColumnArgs \ {"Text"}, batch_size : {1}]
        \cup [gid : GidArgs \ WorksheetIds, column : {"Text"}, batch_size : {1}]

NextClassify ==
    \/ \E a \in Invocations, fail \in RemoteFailures :
          ClsStart(a.gid, a.column, a.batch_size, fail)
    \/ ClsSkipRow
    \/ ClsClassifyRow
    \/ ClsClassifyRaises
    \/ ClsModelFails
    \/ ClsFlushFails
    \/ ClsFinish
    \/ ClsFinishFails
    \/ \E g \in GidArgs : FetchSheetData(g)

SpecClassify == InitClassify /\ [][NextClassify]_vars

\* The same runs on a sheet that has the script's Label and Score columns
\* already, with at most one data row, whose Label and Score cells are each
\* filled or empty.
LabeledHeader(scr) == BaseHeader \o <<LabelHeader(scr), ScoreHeader(scr)>>

\* The label the script writes for a text its model finds hateful.
PositiveLabel(scr) ==
    CASE scr = "hate" -> "hate"
      [] scr = "sexism" -> "sexist"
      [] scr = "homophobia" -> "homophobic"

LabeledRows(scr) ==
    {<<StrCell(<<"4", "8">>), t, l, sc>> :
        t \in TextCells,
        l \in {Blank, StrCell(<<PositiveLabel(scr)>>)},
        sc \in {Blank, NumCell(9)}}

InitLabeled ==
    /\ script \in Scripts
    /\ worksheet \in [hdr : {LabeledHeader(script)},
                      cells : SeqsUpTo(LabeledRows(script), 1)]
    /\ model \in Models(script)
    /\ args = [gid |-> 0, column |-> "Text", batch_size |-> 1]
    /\ clsPc = "idle"
    /\ exc = "none"
    /\ echo = ""
    /\ records = <<>>
    /\ rec_hdr = <<>>
    /\ headers = <<>>
    /\ label_col_index = 0
    /\ score_col_index = 0
    /\ row_index = 0
    /\ updates = <<>>
    /\ readable_label = "unbound"
    /\ flushes = <<>>
    /\ cooldowns = 0
    /\ header_writes = <<>>
    /\ clsRuns = 0
    /\ prev_status = "none"
    /\ prev_written = {}
    /\ chain_start = worksheet
    /\ chain_written = {}
    /\ visResult = NotFetched
    /\ ParseIdle
    /\ RetryIdle
    /\ IngestIdle
    /\ OcrIdle

SpecLabeled == InitLabeled /\ [][NextClassify]_vars

-----------------------------------------------------------------------------
\* Properties.

\* The filename has the form <prefix>-<post_id>-<date>.
MatchesPattern(name) == RegexMatchesAt(name, 1)

\* The filename holds the pattern nowhere.
MatchesNowhere(name) == \A i \in 1..Len(name) : ~RegexMatchesAt(name, i)

PostIdOf(name) == SubSeq(name, 3, DigitRunEnd(name, 3))

\* C1: after two runs of the comment-ingestion script over the same directory and
\* sheet, every append having succeeded, no CommentID is in two rows and the second
\* run has appended nothing, also when the JSON ids are numbers.
C1_SecondRunAppendsNothing ==
    (runs = 2 /\ ingPc = "done" /\ ~gave_up) =>
        /\ NoDuplicateCommentID(comments_sheet)
        /\ appended_in_run = 0

\* C2: with one process at a time, whatever runs were made, over whatever
\* directories and however they ended, no two rows share a Filename, and every row
\* the current run has appended is a .jpg whose name was absent from the Filename
\* column the run fetched at its start.
C2_NoSharedFilename ==
    writers = 1 =>
        /\ NoDuplicateFilename(confessions_sheet)
        /\ ocrPc[1] # "idle" =>
              \A k \in (Len(existing_filenames[1]) + 1)..Len(confessions_sheet) :
                  /\ EndsWithJpg(confessions_sheet[k].Filename)
                  /\ \A j \in 1..Len(existing_filenames[1]) :
                         existing_filenames[1][j] # confessions_sheet[k].Filename

C2_Witness ==
    /\ writers = 1
    /\ ocrRuns = 2
    /\ ocrPc[1] = "done"
    /\ \E j \in 1..Len(existing_filenames[1]) : existing_filenames[1][j] = Image8
    /\ Len(confessions_sheet) = Len(existing_filenames[1]) + 1
    /\ confessions_sheet[Len(confessions_sheet)].Filename = Image48

\* C4: every wait is 2^i for the failed attempt i; at most retries append calls are
\* made; a success after rate-limit failures returns True with the rows appended
\* exactly once; retries rate-limit failures return False with nothing appended and
\* nothing raised; and the call always comes to an end.
C4_StateOk ==
    /\ \A k \in 1..Len(sleeps) : sleeps[k] = 2 ^ (k - 1)
    /\ Len(outcomes) <= retries
    /\ (outcomes # <<>> /\ outcomes[Len(outcomes)] = "ok") =>
          /\ retryPc = "returned"
          /\ result = "True"
          /\ comments_sheet = sheet_before \o StoredRows(rows)
          /\ Len(sleeps) = Len(outcomes) - 1
    /\ (retryPc # "attempt" /\ \A k \in 1..Len(outcomes) : outcomes[k] = "429") =>
          /\ retryPc = "returned"
          /\ result = "False"
          /\ comments_sheet = sheet_before
          /\ Len(outcomes) = retries
          /\ Len(sleeps) = retries

C4_Backoff == [](C4_StateOk) /\ <>(retryPc \in {"returned", "raised"})

C4_Witness ==
    /\ retryPc = "returned"
    /\ result = "True"
    /\ outcomes = <<"429", "429", "ok">>
    /\ sleeps = <<1, 2>>
    /\ Len(comments_sheet) = Len(sheet_before) + Len(rows)

\* C5: an API error that is not a rate limit is the last thing its call does: no
\* append call and no sleep follows it, whatever rate-limit failures came before,
\* nothing is appended, and the ingestion run ends with the exception.
C5_OtherErrorPropagates ==
    \A k \in 1..Len(outcomes) :
        outcomes[k] = "error" =>
            /\ k = Len(outcomes)
            /\ Len(sleeps) = k - 1
            /\ retryPc = "raised"
            /\ ingPc = "crashed"
            /\ comments_sheet = sheet_before

C5_Witness ==
    /\ outcomes = <<"429", "error">>
    /\ sleeps = <<1>>
    /\ ingPc = "crashed"

\* C7: both parsers return the post id of every filename of the expected form (for
\* the example, post id 4821 and date 2023-01-05_10-20-30-UTC) and None, without
\* raising, for every filename that does not hold the pattern; process_filename is
\* looked at on the names check_and_append_rows gives it, those ending in .jpg.
C7_ParsersNeverRaise ==
    /\ "extract_post_id" \in parsePc =>
          /\ MatchesPattern(filename) => post_id = PyStrResult(PostIdOf(filename))
          /\ MatchesNowhere(filename) => post_id = PyNone
    /\ ("process_filename" \in parsePc /\ EndsWithJpg(filename)) =>
          /\ MatchesPattern(filename) =>
                parsed.tag = "tuple" /\ parsed.id = PostIdOf(filename)
          /\ filename = ExampleName =>
                parsed = PyTuple(<<"4", "8", "2", "1">>,
                                 <<"2", "0", "2", "3", Dash, "0", "1", Dash, "0", "5", "_",
                                   "1", "0", Dash, "2", "0", Dash, "3", "0", Dash, "UTC">>)
          /\ MatchesNowhere(filename) => parsed = PyNone

\* C8: two rows with the same key are in a store only after two processes ran
\* side by side; a script run by one process at a time (as the comment script is here) never
\* leaves two rows with the same key.
C8_DuplicateNeedsTwoWriters ==
    /\ ~NoDuplicateFilename(confessions_sheet) => writers = 2
    /\ NoDuplicateCommentID(comments_sheet)


\* ---- Classification runs ----

\* The last invocation of the classification script is over.
RunOver == clsRuns >= 1 /\ clsPc \in {"returned", "done", "crashed"}

\* Every entry the current run has put in its updates list or in a
\* batch_update call.
EntriesOfRun ==
    {updates[k] : k \in 1..Len(updates)}
        \cup UNION {{flushes[f][k] : k \in 1..Len(flushes[f])} : f \in 1..Len(flushes)}

\* C3: after a classification run that completed, a second run on the same
\* sheet puts no update for the Label or Score cell of a row the first run
\* labelled, neither in its updates list nor in any batch_update call.
C3_SecondRunLeavesLabels ==
    prev_status = "done" => \A u \in EntriesOfRun : u.row \notin prev_written

\* A second run that went through the whole sheet after a first run that
\* labelled both rows, and found nothing to write.
C3_Witness ==
    /\ prev_status = "done"
    /\ clsPc = "done"
    /\ prev_written = {2, 3}
    /\ row_index = 2
    /\ flushes = <<>>

\* The sign convention on a list of updates: the entries come in pairs, the
\* label of a row and then its score.
SignOk(label, score) ==
    /\ label \in {<<"non-sexist">>, <<"non-homophobic">>} => score <= 0
    /\ label \in {<<"sexist">>, <<"homophobic">>} => score >= 0

PairsOk(ups) ==
    \A k \in 1..Len(ups) : k % 2 = 1 => SignOk(ups[k].val.s, ups[k + 1].val.n)

\* C6: every (Label, Score) pair the sexism and homophobia scripts put into an
\* update has a score <= 0 under "non-sexist" / "non-homophobic" and a score
\* >= 0 under "sexist" / "homophobic", whatever raw label the model returns.
C6_ScoreSign ==
    script \in {"sexism", "homophobia"} =>
        /\ PairsOk(updates)
        /\ \A f \in 1..Len(flushes) : PairsOk(flushes[f])

\* What one run that nothing interrupts makes of the data rows, from the first
\* on: for each row whether it is kept as it is or which label and score it
\* gets, and whether the run gets through.
RECURSIVE Uninterrupted(_, _, _, _, _, _)
Uninterrupted(scr, hdr, cells, col, mdl, stale) ==
    IF cells = <<>> THEN [ok |-> TRUE, out |-> <<>>]
    ELSE LET row == Head(cells)
             text == Strip(StrOf(Get(hdr, row, col)))
         IN  IF text = <<>> \/ AlreadyLabeled(scr, hdr, row)
             THEN LET rest == Uninterrupted(scr, hdr, Tail(cells), col, mdl, stale)
                  IN  [ok |-> rest.ok,
                       out |-> <<[kept |-> TRUE, label |-> "", score |-> 0]>> \o rest.out]
             ELSE LET o == Interpret(scr, mdl[text], stale)
                      rest == Uninterrupted(scr, hdr, Tail(cells), col, mdl,
                                            IF scr = "homophobia" THEN o.label ELSE stale)
                  IN  IF o.exc # "none" THEN [ok |-> FALSE, out |-> <<>>]
                      ELSE [ok |-> rest.ok,
                            out |-> <<[kept |-> FALSE, label |-> o.label,
                                       score |-> o.score]>> \o rest.out]

\* The data rows after the batch_update calls of a run, one after the other.
RECURSIVE Flushed(_, _)
Flushed(cells, calls) ==
    IF calls = <<>> THEN cells
    ELSE Flushed(ApplyUpdates(cells, Head(calls)), Tail(calls))

\* C9: when a run is aborted in its loop, the sheet holds what the flushed
\* batches wrote and nothing of the pending updates; and when a later run
\* completes, every row with text carries the Label and Score one run without
\* interruption would have given it, and that run writes no row that an
\* aborted run before it had written.
C9_Resumption ==
    /\ (clsPc = "crashed" /\ headers # <<>>) =>
          worksheet.cells = Flushed(records, flushes)
    /\ (clsPc = "done" /\ prev_status = "crashed") =>
          LET one == Uninterrupted(script, chain_start.hdr, chain_start.cells,
                                   args.column, model, "unbound")
          IN  /\ one.ok
              /\ Len(worksheet.cells) = Len(chain_start.cells)
              /\ \A r \in 1..Len(chain_start.cells) :
                    Strip(StrOf(Get(chain_start.hdr, chain_start.cells[r], args.column)))
                        # <<>> =>
                       IF one.out[r].kept
                       THEN worksheet.cells[r] = chain_start.cells[r]
                       ELSE /\ CellAt(worksheet.cells[r], label_col_index)
                                  = StrCell(<<one.out[r].label>>)
                            /\ CellAt(worksheet.cells[r], score_col_index)
                                  = NumCell(one.out[r].score)
              /\ \A u \in EntriesOfRun : u.row \notin chain_written

\* A run that labelled the second row and completed, after a run that had
\* written the first row and was aborted with the second one pending.
C9_Witness ==
    /\ clsPc = "done"
    /\ prev_status = "crashed"
    /\ chain_written = {2}
    /\ RowsWritten(flushes) = {3}

Populated(c) == c \notin {Blank, NoneCell}

\* The stripped text of data row r of the fetched records.
TextOf(r) == Strip(StrOf(Get(rec_hdr, records[r], args.column)))

\* C11: in a run that completed, a row with text was skipped exactly when both
\* its Label and its Score were populated in the fetched records; a row with
\* only one of the two populated was classified and updated.
C11_SkippedIffBothPopulated ==
    clsPc = "done" =>
        \A r \in 1..Len(records) :
            TextOf(r) # <<>> =>
                ((r + 1) \notin RowsWritten(flushes)
                    <=> /\ Populated(Get(rec_hdr, records[r], LabelHeader(script)))
                        /\ Populated(Get(rec_hdr, records[r], ScoreHeader(script))))

\* C12: after every iteration the pending list has an even length below
\* 2 * batch_size; every batch_update issued in the loop carries exactly
\* 2 * batch_size entries and has its cooldown; the call after the loop is
\* issued only for a non-empty list, of at most 2 * batch_size - 2 entries.
C12_FlushThreshold ==
    /\ clsPc = "loop" =>
          /\ Len(updates) % 2 = 0
          /\ Len(updates) < 2 * args.batch_size
    /\ (clsPc \in {"loop", "crashed"} /\ headers # <<>>) =>
          /\ cooldowns = Len(flushes)
          /\ \A f \in 1..Len(flushes) : Len(flushes[f]) = 2 * args.batch_size
    /\ clsPc = "done" =>
          /\ Len(flushes) \in {cooldowns, cooldowns + 1}
          /\ \A f \in 1..cooldowns : Len(flushes[f]) = 2 * args.batch_size
          /\ Len(flushes) = cooldowns + 1 =>
                /\ flushes[Len(flushes)] # <<>>
                /\ Len(flushes[Len(flushes)]) <= 2 * args.batch_size - 2

\* A run with --batch-size 2 over two rows: one batch_update of four entries
\* from inside the loop, its cooldown, and no call after the loop.
C12_Witness ==
    /\ clsPc = "done"
    /\ args.batch_size = 2
    /\ cooldowns = 1
    /\ Len(flushes) = 1
    /\ Len(flushes[1]) = 4

\* Data row r of the fetched records is one the loop classifies.
Classified(r) == TextOf(r) # <<>> /\ ~AlreadyLabeled(script, rec_hdr, records[r])

\* Where the batch_update calls of the run hold an entry for column c of data
\* row r: pairs of call and position.
Places(r, c) ==
    UNION {{<<f, k>> : k \in {j \in 1..Len(flushes[f]) :
                                 flushes[f][j].row = r + 1 /\ flushes[f][j].col = c}} :
           f \in 1..Len(flushes)}

C14_HeadersWrittenWhenAbsent ==
    headers # <<>> =>
        /\ \A k \in 1..Len(header_writes) : ~Contains(rec_hdr, header_writes[k].value)
        /\ (Contains(rec_hdr, LabelHeader(script)) /\ Contains(rec_hdr, ScoreHeader(script))) =>
              /\ header_writes = <<>>
              /\ worksheet.hdr = rec_hdr
              /\ label_col_index = IndexOf(rec_hdr, LabelHeader(script))
              /\ score_col_index = IndexOf(rec_hdr, ScoreHeader(script))

\* C15: between the files of a run and at its end, every comment id in
\* existing_comment_ids, the ids added during the run included, is the
\* Comment ID of a row of the sheet; so a comment whose batch was given up on
\* is not held back from a later file of the run.
C15_KeySetMatchesStore ==
    (runs >= 1 /\ ingPc \in {"files", "done"}) =>
        \A id \in existing_comment_ids :
            \E k \in 1..Len(comments_sheet) : comments_sheet[k].cid = Format(id)

=========================================================================
